---- MODULE Spec2Model ----
(***************************************************************************)
(* The todo synchronization core: the useTodos hook                        *)
(* (frontend/src/hooks/useTodos.js), the localStorage mirror               *)
(* (frontend/src/services/localStorage.js) and the REST controller with    *)
(* its Todo model (backend controllers/todoController.js, models/Todo.js). *)
(*                                                                         *)
(* Strings are modelled by their shape: a text is                          *)
(*   [pre, len, post] = pre whitespace characters, a core of len           *)
(* characters that starts and ends with a non-whitespace character, and    *)
(* post whitespace characters.  Every string has exactly one such shape,   *)
(* its length is pre + len + post and String.prototype.trim keeps the core.*)
(*                                                                         *)
(* Identifiers are integers: a MongoDB ObjectId (24 hex digits) is a       *)
(* positive integer, an identifier made by addTodoToStorage                *)
(* (`local_<time>_<random>`) is a negative integer, and NoId (0) stands    *)
(* for an absent/undefined identifier field (falsy in JavaScript).         *)
(*                                                                         *)
(* Time is the logical clock nops, which advances at every call of an      *)
(* operation of the hook and at every request of the API test script.      *)
(***************************************************************************)
EXTENDS Integers, Sequences, FiniteSets

VARIABLES
  todos,         \* useState([])            the in-memory list
  stats,         \* useState({total, completed, pending})
  loading,       \* useState(false)
  error,         \* useState(null)
  isOnline,      \* useState(navigator.onLine)
  localStorage,  \* the two keys todoapp_todos and todoapp_stats
  db,            \* the MongoDB collection behind the REST API
  inflight,      \* responses of the REST API the hook is still awaiting
  nops,          \* number of operations called so far (logical clock)
  last,          \* the operation completed last, and a summary of the one before
  offlineAdded,  \* trimmed texts of the items added while offline
  script,        \* the API test script: the todo it created, what it wrote to
                 \* it, and the answer to its last request
  handlers,      \* toggleTodoComplete handlers of the backend that have read
                 \* their document and not yet saved it
  toggled,       \* per document, the number of toggle requests answered 200
  dev            \* start-dev.js: the script, its two child processes and
                 \* its wait for the backend

vars == <<todos, stats, loading, error, isOnline, localStorage, db,
          inflight, nops, last, offlineAdded, script,
                 handlers, toggled, dev>>

----------------------------------------------------------------------------
(* Bounds of the model *)

MaxOps == 3        \* operations called in one behaviour
MaxInflight == 2   \* responses awaited at the same time
MaxTargets == 1    \* entries of todos (from the front) an operation may name

(* Program constants *)

NoId == 0
MaxTextLength == 500
DefaultLimit == 50
MaxLimit == 100

(* Error messages of the hook; NoError is null *)
NoError == "null"
ErrEmptyText == "Todo text cannot be empty"
ErrOffline == "Using offline data. Some features may be limited."
ErrAdd == "Failed to add todo. Please try again."
ErrUpdate == "Failed to update todo. Please try again."
ErrToggle == "Failed to toggle todo. Please try again."
ErrDelete == "Failed to delete todo. Please try again."
ErrDeleteCompleted == "Failed to delete completed todos. Please try again."

----------------------------------------------------------------------------
(* Texts *)

Text(pre, len, post) == [pre |-> pre, len |-> len, post |-> post]

EmptyText == Text(0, 0, 0)

\* text.length
TextLength(t) == t.pre + t.len + t.post

\* text.trim()
trim(t) == Text(0, t.len, 0)

\* the texts addTodo is called with: "", "  ", " abc ", 500 characters
\* between two blanks, 501 characters
Texts == { EmptyText, Text(1, 0, 1), Text(1, 3, 1),
           Text(1, MaxTextLength, 1), Text(0, MaxTextLength + 1, 0) }

\* an update carries text, completed or both
Patch(hasText, text, hasCompleted, completed) ==
  [hasText |-> hasText, text |-> text,
   hasCompleted |-> hasCompleted, completed |-> completed]

TextPatch(t) == Patch(TRUE, t, FALSE, FALSE)

CompletedPatch(b) == Patch(FALSE, EmptyText, TRUE, b)

\* the updates updateTodo is called with: {text: ""}, {text: " abcd "},
\* {completed: true}
Patches == { TextPatch(EmptyText), TextPatch(Text(1, 4, 1)),
             CompletedPatch(TRUE) }

----------------------------------------------------------------------------
(* Identifiers and items *)

\* /^[0-9a-fA-F]{24}$/
IsObjectId(id) == id > 0

\* `local_${Date.now()}_${Math.random()...}`
LocalId(now) == 0 - now

IsLocalId(id) == id < 0

\* an absent createdAt
NoDate == 0

\* the ObjectId of the document created at time now; the documents the
\* collection holds at start were created at times -DefaultLimit .. -1
ObjectIdAt(now) == DefaultLimit + 1 + now

Item(oid, id, text, completed, createdAt) ==
  [_id |-> oid, id |-> id, text |-> text, completed |-> completed,
   createdAt |-> createdAt]

\* todo._id || todo.id
ResolveId(todo) == IF todo._id # NoId THEN todo._id ELSE todo.id

Min(a, b) == IF a < b THEN a ELSE b

IsCompleted(todo) == todo.completed

NotCompleted(todo) == ~todo.completed

----------------------------------------------------------------------------
(* localStorage.js *)

calculateStats_noPending(ts) ==
  [total |-> Len(ts), completed |-> Len(SelectSeq(ts, IsCompleted)), pending |-> Len(ts)]

calculateStats(ts) ==
  LET total == Len(ts)
      completed == Len(SelectSeq(ts, IsCompleted))
  IN  [total |-> total, completed |-> completed, pending |-> total - completed]

getTodosFromStorage_none(ls) == <<>>

getTodosFromStorage(ls) == ls.todoapp_todos

\* localStorage.setItem(key, value): it throws (QuotaExceededError) and
\* writes nothing when the storage takes no more data
setItem(ls, key, value) ==
  IF ls.full THEN [thrown |-> TRUE, ls |-> ls]
  ELSE [thrown |-> FALSE, ls |-> [ls EXCEPT ![key] = value]]

\* try { localStorage.setItem(STORAGE_KEY, ...) } catch { console.error }
saveTodosToStorage(ls, ts) == setItem(ls, "todoapp_todos", ts).ls

\* try { localStorage.setItem(STATS_KEY, ...) } catch { console.error }
saveStatsToStorage(ls, s) == setItem(ls, "todoapp_stats", s).ls

addTodoToStorage_skip(ls, todo, now) == [todo |-> todo, ls |-> ls]

\* returns the stored todo and the storage after the write
addTodoToStorage(ls, todo, now) ==
  LET newTodo == [todo EXCEPT !.id = IF todo.id # NoId THEN todo.id
                                     ELSE LocalId(now),
                              !.createdAt = IF todo.createdAt # NoDate
                                            THEN todo.createdAt ELSE now]
      ts == Append(getTodosFromStorage(ls), newTodo)
  IN  [todo |-> newTodo,
       ls |-> saveStatsToStorage(saveTodosToStorage(ls, ts), calculateStats(ts))]

\* { ...todo, ...updateData }
ApplyPatch(todo, updateData) ==
  [todo EXCEPT !.text = IF updateData.hasText THEN updateData.text ELSE @,
               !.completed = IF updateData.hasCompleted
                             THEN updateData.completed ELSE @]

MatchesId(todo, id) == todo.id = id \/ todo._id = id

\* todos.findIndex(...): the first matching index, 0 for -1
FindIndex(ts, id) ==
  IF \E i \in 1..Len(ts) : MatchesId(ts[i], id)
  THEN CHOOSE i \in 1..Len(ts) :
         /\ MatchesId(ts[i], id)
         /\ \A j \in 1..(i - 1) : ~MatchesId(ts[j], id)
  ELSE 0

\* found = FALSE is the thrown 'Todo not found in localStorage'
updateTodoInStorage(ls, id, updateData) ==
  LET ts == getTodosFromStorage(ls)
      index == FindIndex(ts, id)
  IN  IF index # 0
      THEN LET upd == [ApplyPatch(ts[index], updateData)
                         EXCEPT !.id = IF ts[index].id # NoId THEN ts[index].id
                                       ELSE ts[index]._id]
               ts2 == [ts EXCEPT ![index] = upd]
           IN  [found |-> TRUE, todo |-> upd,
                ls |-> saveStatsToStorage(saveTodosToStorage(ls, ts2),
                                          calculateStats(ts2))]
      ELSE [found |-> FALSE, todo |-> Item(NoId, NoId, EmptyText, FALSE, NoDate),
            ls |-> ls]

deleteTodoFromStorage_noThrow(ls, id) ==
  LET ts == getTodosFromStorage(ls)
      filteredTodos == SelectSeq(ts, LAMBDA t : t.id # id /\ t._id # id)
  IN  [found |-> TRUE,
       ls |-> saveStatsToStorage(saveTodosToStorage(ls, filteredTodos),
                                 calculateStats(filteredTodos))]

\* found = FALSE is the thrown 'Todo not found in localStorage'
deleteTodoFromStorage(ls, id) ==
  LET ts == getTodosFromStorage(ls)
      filteredTodos == SelectSeq(ts, LAMBDA t : t.id # id /\ t._id # id)
  IN  IF Len(filteredTodos) # Len(ts)
      THEN [found |-> TRUE,
            ls |-> saveStatsToStorage(saveTodosToStorage(ls, filteredTodos),
                                      calculateStats(filteredTodos))]
      ELSE [found |-> FALSE, ls |-> ls]

syncTodosWithStorage_merge(ls, ts) ==
  LET merged == getTodosFromStorage(ls) \o ts
  IN  saveStatsToStorage(saveTodosToStorage(ls, merged), calculateStats(merged))

syncTodosWithStorage_keep(ls, ts) == ls

syncTodosWithStorage(ls, ts) ==
  saveStatsToStorage(saveTodosToStorage(ls, ts), calculateStats(ts))

----------------------------------------------------------------------------
(* models/Todo.js and controllers/todoController.js.  A response is        *)
(* [status, ok, data, db]: status is the HTTP status, ok whether it is a   *)
(* 2xx one, data the list of documents of the response body (one document  *)
(* for the single-document endpoints), db the collection after the         *)
(* request.  A document in JSON carries _id, no id.                        *)

Response(status, data, docs) ==
  [status |-> status, ok |-> status \in 200..299, data |-> data, db |-> docs]

\* .sort({ createdAt: -1 or 1 })
RECURSIVE SortByCreatedAt(_, _)
SortByCreatedAt(docs, sortOrder) ==
  IF docs = {} THEN <<>>
  ELSE LET d == CHOOSE x \in docs : \A y \in docs :
                  IF sortOrder = "desc" THEN x.createdAt >= y.createdAt
                  ELSE x.createdAt <= y.createdAt
       IN  <<d>> \o SortByCreatedAt(docs \ {d}, sortOrder)

\* this.find().sort(sort).skip(skip).limit(limit)
getPaginatedTodos(docs, page, limit, sortOrder) ==
  LET skip == (page - 1) * limit
      sorted == SortByCreatedAt(docs, sortOrder)
  IN  SubSeq(sorted, skip + 1, Min(Len(sorted), skip + limit))

getAllTodos_asc(docs) ==
  Response(200, getPaginatedTodos(docs, 1, DefaultLimit, "asc"), docs)

\* GET /api/todos without query parameters: page 1, limit 50, newest first
getAllTodos(docs) ==
  LET pageNum == 1
      limitNum == DefaultLimit
  IN  IF pageNum < 1 \/ limitNum < 1 \/ limitNum > MaxLimit
      THEN Response(400, <<>>, docs)
      ELSE Response(200, getPaginatedTodos(docs, pageNum, limitNum, "desc"),
                    docs)

\* GET /api/todos/:id
getTodoById(docs, id) ==
  IF ~IsObjectId(id) THEN Response(400, <<>>, docs)
  ELSE IF ~\E d \in docs : d._id = id
  THEN Response(404, <<>>, docs)
  ELSE Response(200, <<CHOOSE d \in docs : d._id = id>>, docs)

\* POST /api/todos
createTodo(docs, text, now) ==
  IF TextLength(text) = 0 \/ TextLength(trim(text)) = 0
  THEN Response(400, <<>>, docs)
  ELSE IF TextLength(text) > MaxTextLength
  THEN Response(400, <<>>, docs)
  ELSE LET savedTodo == Item(ObjectIdAt(now), NoId, trim(text), FALSE, now)
       IN  Response(201, <<savedTodo>>, docs \cup {savedTodo})

\* PUT /api/todos/:id
ctlUpdateTodo(docs, id, body) ==
  IF ~IsObjectId(id) THEN Response(400, <<>>, docs)
  ELSE IF body.hasText /\ (TextLength(body.text) = 0
                           \/ TextLength(trim(body.text)) = 0)
  THEN Response(400, <<>>, docs)
  ELSE IF body.hasText /\ TextLength(body.text) > MaxTextLength
  THEN Response(400, <<>>, docs)
  ELSE IF ~body.hasText /\ ~body.hasCompleted
  THEN Response(400, <<>>, docs)
  ELSE IF ~\E d \in docs : d._id = id
  THEN Response(404, <<>>, docs)
  ELSE LET old == CHOOSE d \in docs : d._id = id
           updateData == [body EXCEPT !.text = trim(body.text)]
           updatedTodo == ApplyPatch(old, updateData)
       IN  Response(200, <<updatedTodo>>, (docs \ {old}) \cup {updatedTodo})

ctlToggleTodoComplete_set(docs, id) ==
  IF ~IsObjectId(id) THEN Response(400, <<>>, docs)
  ELSE IF ~\E d \in docs : d._id = id
  THEN Response(404, <<>>, docs)
  ELSE LET todo == CHOOSE d \in docs : d._id = id
           updatedTodo == [todo EXCEPT !.completed = TRUE]
       IN  Response(200, <<updatedTodo>>, (docs \ {todo}) \cup {updatedTodo})

\* PATCH /api/todos/:id/toggle, with todoSchema.methods.toggleComplete
ctlToggleTodoComplete(docs, id) ==
  IF ~IsObjectId(id) THEN Response(400, <<>>, docs)
  ELSE IF ~\E d \in docs : d._id = id
  THEN Response(404, <<>>, docs)
  ELSE LET todo == CHOOSE d \in docs : d._id = id
           updatedTodo == [todo EXCEPT !.completed = ~todo.completed]
       IN  Response(200, <<updatedTodo>>, (docs \ {todo}) \cup {updatedTodo})

\* DELETE /api/todos/:id
ctlDeleteTodo(docs, id) ==
  IF ~IsObjectId(id) THEN Response(400, <<>>, docs)
  ELSE IF ~\E d \in docs : d._id = id
  THEN Response(404, <<>>, docs)
  ELSE LET deletedTodo == CHOOSE d \in docs : d._id = id
       IN  Response(200, <<deletedTodo>>, docs \ {deletedTodo})

\* DELETE /api/todos/completed
ctlDeleteCompletedTodos(docs) ==
  Response(200, <<>>, {d \in docs : ~d.completed})

\* api.js: the interceptor turns every non-2xx status and every network
\* failure into a thrown Error; net = FALSE is 'Unable to connect to server',
\* a request without a response (status 0)
Call(net, response, docs) ==
  IF net THEN response ELSE Response(0, <<>>, docs)

----------------------------------------------------------------------------
(* hooks/useTodos.js *)

\* an awaited response: n is the time of the call, todos the list the
\* callback closed over, alone whether nothing else was awaited at the call
Request(n, op, id, arg, response) ==
  [n |-> n, op |-> op, id |-> id, arg |-> arg, todos |-> todos,
   ok |-> response.ok, data |-> response.data, alone |-> inflight = {}]

\* what is kept of the operation completed before the last one
Summary(d) ==
  [op |-> d.op, online |-> d.online, outcome |-> d.outcome, solo |-> d.solo]

\* a completed operation; solo: no other operation was called or awaited
\* between its call and its completion; listed, cached: todos held an entry,
\* localStorage a record, for id when the operation came to its last step
\* seq: every operation completed so far was solo
Completed(op, online, outcome, id, arg, solo) ==
  [op |-> op, online |-> online, outcome |-> outcome, id |-> id,
   arg |-> arg, solo |-> solo,
   listed |-> \E i \in DOMAIN todos : todos[i].id = id,
   cached |-> /\ id # NoId
              /\ \E i \in DOMAIN getTodosFromStorage(localStorage) :
                   MatchesId(getTodosFromStorage(localStorage)[i], id),
   prev |-> Summary(last),
   seq |-> last.seq /\ solo]

Record(d) == last' = d

Solo(r) == r.alone /\ nops = r.n

NoPatch == Patch(FALSE, EmptyText, FALSE, FALSE)

\* an identifier of the right format that no document and no record has
GhostId == ObjectIdAt(MaxOps + 1)

\* the identifiers an operation is called with
TargetIds ==
  { todos[i].id : i \in 1..Min(Len(todos), MaxTargets) } \cup { GhostId }

NormalizeTodos_raw(ts) == ts

\* todos.map(todo => ({...todo, id: todo._id || todo.id}))
\*      .filter(todo => todo.id && todo.id !== 'undefined')
NormalizeTodos(ts) ==
  SelectSeq([i \in 1..Len(ts) |-> [ts[i] EXCEPT !.id = ResolveId(ts[i])]],
            LAMBDA t : t.id # NoId)

\* if (todo._id && !todo.id) todo.id = todo._id
WithId(todo) ==
  IF todo._id # NoId /\ todo.id = NoId THEN [todo EXCEPT !.id = todo._id]
  ELSE todo

ReplaceById_keep(ts, id, updatedTodo) == ts

\* prev.map(todo => todo.id === id ? updatedTodo : todo)
ReplaceById(ts, id, updatedTodo) ==
  [i \in 1..Len(ts) |-> IF ts[i].id = id THEN updatedTodo ELSE ts[i]]

RemoveById_none(ts, id) == ts

\* prev.filter(todo => todo.id !== id)
RemoveById(ts, id) == SelectSeq(ts, LAMBDA t : t.id # id)

RemainingTodos_all(ts) == ts

\* todos.filter(todo => !todo.completed)
RemainingTodos(ts) == SelectSeq(ts, NotCompleted)

\* todos.find(t => t.id === id): its index, 0 for undefined
FindTodo(ts, id) ==
  IF \E i \in 1..Len(ts) : ts[i].id = id
  THEN CHOOSE i \in 1..Len(ts) :
         /\ ts[i].id = id
         /\ \A j \in 1..(i - 1) : ts[j].id # id
  ELSE 0

addTodoRejects_untrimmed(text) == TextLength(text) = 0

\* !text.trim()
addTodoRejects(text) == TextLength(trim(text)) = 0

loadTodos_keepError(online, net) ==
  LET now == nops + 1
  IN  /\ nops < MaxOps
      /\ nops' = now
      /\ UNCHANGED <<error, localStorage, db, offlineAdded, script,
                 handlers, toggled, dev>>
      /\ IF online
         THEN /\ Cardinality(inflight) < MaxInflight
              /\ loading' = TRUE
              /\ inflight' = inflight \cup
                   { Request(now, "load", NoId, NoPatch,
                             Call(net, getAllTodos(db), db)) }
              /\ UNCHANGED <<todos, stats, last>>
         ELSE LET validTodos ==
                    NormalizeTodos(getTodosFromStorage(localStorage))
              IN  /\ todos' = validTodos
                  /\ stats' = calculateStats(validTodos)
                  /\ loading' = FALSE
                  /\ Record(Completed("load", FALSE, "ok", NoId, NoPatch,
                                      inflight = {}))
                  /\ UNCHANGED inflight

\* loadTodos up to its await (online) or to its end (offline)
loadTodos(online, net) ==
  LET now == nops + 1
  IN  /\ nops < MaxOps
      /\ nops' = now
      /\ error' = NoError
      /\ UNCHANGED <<localStorage, db, offlineAdded, script,
                 handlers, toggled, dev>>
      /\ IF online
         THEN /\ Cardinality(inflight) < MaxInflight
              /\ loading' = TRUE
              /\ inflight' = inflight \cup
                   { Request(now, "load", NoId, NoPatch,
                             Call(net, getAllTodos(db), db)) }
              /\ UNCHANGED <<todos, stats, last>>
         ELSE LET validTodos ==
                    NormalizeTodos(getTodosFromStorage(localStorage))
              IN  /\ todos' = validTodos
                  /\ stats' = calculateStats(validTodos)
                  /\ loading' = FALSE
                  /\ Record(Completed("load", FALSE, "ok", NoId, NoPatch,
                                      inflight = {}))
                  /\ UNCHANGED inflight

\* useEffect(() => { loadTodos() }, [loadTodos]) at mount
Mount ==
  /\ nops = 0
  /\ \E net \in BOOLEAN : loadTodos(isOnline, net)
  /\ UNCHANGED isOnline

\* loadTodos called by the user of the hook
Load ==
  /\ nops > 0
  /\ \E net \in BOOLEAN : loadTodos(isOnline, net)
  /\ UNCHANGED isOnline

\* handleOnline, then the effect that runs the new loadTodos
GoOnline ==
  /\ nops > 0
  /\ ~isOnline
  /\ isOnline' = TRUE
  /\ \E net \in BOOLEAN : loadTodos(TRUE, net)

GoOffline_fetch ==
  /\ nops > 0
  /\ isOnline
  /\ isOnline' = FALSE
  /\ loadTodos(TRUE, TRUE)

\* handleOffline, then the effect that runs the new loadTodos
GoOffline ==
  /\ nops > 0
  /\ isOnline
  /\ isOnline' = FALSE
  /\ loadTodos(FALSE, FALSE)

\* loadTodos after its await
ResolveLoad ==
  \E r \in inflight :
    /\ r.op = "load"
    /\ inflight' = inflight \ {r}
    /\ loading' = FALSE
    /\ UNCHANGED <<isOnline, db, nops, offlineAdded, script,
                 handlers, toggled, dev>>
    /\ IF r.ok
       THEN LET validTodos == NormalizeTodos(r.data)
            IN  /\ todos' = validTodos
                /\ stats' = calculateStats(validTodos)
                /\ localStorage' = syncTodosWithStorage(localStorage, r.data)
                /\ UNCHANGED error
                /\ Record(Completed("load", TRUE, "ok", NoId, NoPatch,
                                    Solo(r)))
       ELSE LET validTodos ==
                  NormalizeTodos(getTodosFromStorage(localStorage))
            IN  /\ todos' = validTodos
                /\ stats' = calculateStats(validTodos)
                /\ error' = ErrOffline
                /\ UNCHANGED localStorage
                /\ Record(Completed("load", TRUE, "fallback", NoId,
                                    NoPatch, Solo(r)))

\* addTodo up to its await (online) or to its end (empty text, offline)
AddTodo ==
  \E text \in Texts, net \in BOOLEAN :
    LET now == nops + 1
    IN  /\ nops > 0
        /\ nops < MaxOps
        /\ nops' = now
        /\ UNCHANGED <<loading, isOnline, script,
                 handlers, toggled, dev>>
        /\ IF addTodoRejects(text)
           THEN /\ error' = ErrEmptyText
                /\ Record(Completed("add", isOnline, "invalid", NoId,
                                    TextPatch(text), inflight = {}))
                /\ UNCHANGED <<todos, stats, localStorage, db, inflight,
                               offlineAdded>>
           ELSE IF isOnline
           THEN LET response == Call(net, createTodo(db, trim(text), now), db)
                IN  /\ Cardinality(inflight) < MaxInflight
                    /\ error' = NoError
                    /\ db' = response.db
                    /\ inflight' = inflight \cup
                         { Request(now, "add", NoId, TextPatch(text), response) }
                    /\ UNCHANGED <<todos, stats, localStorage, last,
                                   offlineAdded>>
           ELSE LET added == addTodoToStorage(localStorage,
                               Item(NoId, NoId, trim(text), FALSE, NoDate), now)
                    newTodo == WithId(added.todo)
                    updated == Append(todos, newTodo)
                IN  /\ error' = NoError
                    /\ localStorage' = added.ls
                    /\ todos' = updated
                    /\ stats' = calculateStats(updated)
                    /\ offlineAdded' = offlineAdded \cup {trim(text)}
                    /\ Record(Completed("add", FALSE, "ok", newTodo.id,
                                        TextPatch(text), inflight = {}))
                    /\ UNCHANGED <<db, inflight>>

ResolveAdd_rollback ==
  \E r \in inflight :
    /\ r.op = "add"
    /\ inflight' = inflight \ {r}
    /\ UNCHANGED <<loading, isOnline, db, nops, offlineAdded, script,
                 handlers, toggled, dev>>
    /\ IF r.ok /\ WithId(r.data[1]).id # NoId /\ ~localStorage.full
       THEN LET newTodo == WithId(r.data[1])
                updated == Append(todos, newTodo)
            IN  /\ todos' = updated
                /\ stats' = calculateStats(updated)
                /\ localStorage' =
                     addTodoToStorage(localStorage, newTodo, nops).ls
                /\ UNCHANGED error
                /\ Record(Completed("add", TRUE, "ok", newTodo.id, r.arg,
                                    Solo(r)))
       ELSE /\ error' = ErrAdd
            /\ UNCHANGED <<todos, stats, localStorage>>
            /\ Record(Completed("add", TRUE, "failed", NoId, r.arg,
                                Solo(r)))

\* addTodo after its await
ResolveAdd ==
  \E r \in inflight :
    /\ r.op = "add"
    /\ inflight' = inflight \ {r}
    /\ UNCHANGED <<loading, isOnline, db, nops, offlineAdded, script,
                 handlers, toggled, dev>>
    /\ IF r.ok /\ WithId(r.data[1]).id # NoId
       THEN LET newTodo == WithId(r.data[1])
                updated == Append(todos, newTodo)
            IN  /\ todos' = updated
                /\ stats' = calculateStats(updated)
                /\ localStorage' =
                     addTodoToStorage(localStorage, newTodo, nops).ls
                /\ UNCHANGED error
                /\ Record(Completed("add", TRUE, "ok", newTodo.id, r.arg,
                                    Solo(r)))
       ELSE /\ error' = ErrAdd
            /\ UNCHANGED <<todos, stats, localStorage>>
            /\ Record(Completed("add", TRUE, "failed", NoId, r.arg,
                                Solo(r)))

\* updateTodo up to its await (online) or to its end (offline)
UpdateTodo ==
  \E id \in TargetIds, updateData \in Patches, net \in BOOLEAN :
    LET now == nops + 1
    IN  /\ nops > 0
        /\ nops < MaxOps
        /\ nops' = now
        /\ UNCHANGED <<loading, isOnline, offlineAdded, script,
                 handlers, toggled, dev>>
        /\ IF isOnline
           THEN LET response == Call(net, ctlUpdateTodo(db, id, updateData), db)
                IN  /\ Cardinality(inflight) < MaxInflight
                    /\ error' = NoError
                    /\ db' = response.db
                    /\ inflight' = inflight \cup
                         { Request(now, "update", id, updateData, response) }
                    /\ UNCHANGED <<todos, stats, localStorage, last>>
           ELSE LET stored == updateTodoInStorage(localStorage, id, updateData)
                    updated == ReplaceById(todos, id, stored.todo)
                IN  /\ UNCHANGED <<db, inflight>>
                    /\ IF stored.found
                       THEN /\ error' = NoError
                            /\ localStorage' = stored.ls
                            /\ todos' = updated
                            /\ stats' = calculateStats(updated)
                            /\ Record(Completed("update", FALSE, "ok", id,
                                                updateData, inflight = {}))
                       ELSE /\ error' = ErrUpdate
                            /\ UNCHANGED <<todos, stats, localStorage>>
                            /\ Record(Completed("update", FALSE, "failed",
                                                id, updateData, inflight = {}))

\* updateTodo after its await
ResolveUpdate ==
  \E r \in inflight :
    /\ r.op = "update"
    /\ inflight' = inflight \ {r}
    /\ UNCHANGED <<loading, isOnline, db, nops, offlineAdded, script,
                 handlers, toggled, dev>>
    /\ IF r.ok
       THEN LET updatedTodo == WithId(r.data[1])
                updated == ReplaceById(todos, r.id, updatedTodo)
                stored == updateTodoInStorage(localStorage, r.id, r.arg)
            IN  /\ todos' = updated
                /\ stats' = calculateStats(updated)
                /\ localStorage' =
                     IF stored.found THEN stored.ls
                     ELSE addTodoToStorage(localStorage, updatedTodo, nops).ls
                /\ UNCHANGED error
                /\ Record(Completed("update", TRUE, "ok", r.id, r.arg,
                                    Solo(r)))
       ELSE /\ error' = ErrUpdate
            /\ UNCHANGED <<todos, stats, localStorage>>
            /\ Record(Completed("update", TRUE, "failed", r.id, r.arg,
                                Solo(r)))

\* toggleTodoComplete up to its await (online) or to its end (offline)
ToggleTodoComplete ==
  \E id \in TargetIds, net \in BOOLEAN :
    LET now == nops + 1
    IN  /\ nops > 0
        /\ nops < MaxOps
        /\ nops' = now
        /\ UNCHANGED <<loading, isOnline, offlineAdded, script,
                 handlers, toggled, dev>>
        /\ IF isOnline
           THEN LET response == Call(net, ctlToggleTodoComplete(db, id), db)
                IN  /\ Cardinality(inflight) < MaxInflight
                    /\ error' = NoError
                    /\ db' = response.db
                    /\ inflight' = inflight \cup
                         { Request(now, "toggle", id, NoPatch, response) }
                    /\ UNCHANGED <<todos, stats, localStorage, last>>
           ELSE LET index == FindTodo(todos, id)
                    stored == updateTodoInStorage(localStorage, id,
                                CompletedPatch(~todos[index].completed))
                    updated == ReplaceById(todos, id, stored.todo)
                IN  /\ UNCHANGED <<db, inflight>>
                    /\ IF index = 0
                       THEN /\ error' = NoError
                            /\ UNCHANGED <<todos, stats, localStorage>>
                            /\ Record(Completed("toggle", FALSE, "absent",
                                                id, NoPatch, inflight = {}))
                       ELSE IF stored.found
                       THEN /\ error' = NoError
                            /\ localStorage' = stored.ls
                            /\ todos' = updated
                            /\ stats' = calculateStats(updated)
                            /\ Record(Completed("toggle", FALSE, "ok", id,
                                                NoPatch, inflight = {}))
                       ELSE /\ error' = ErrToggle
                            /\ UNCHANGED <<todos, stats, localStorage>>
                            /\ Record(Completed("toggle", FALSE, "failed",
                                                id, NoPatch, inflight = {}))

\* toggleTodoComplete after its await; r.todos is the list the callback
\* closed over when it was called
ResolveToggle ==
  \E r \in inflight :
    /\ r.op = "toggle"
    /\ inflight' = inflight \ {r}
    /\ UNCHANGED <<loading, isOnline, db, nops, offlineAdded, script,
                 handlers, toggled, dev>>
    /\ IF r.ok
       THEN LET updatedTodo == WithId(r.data[1])
                updated == ReplaceById(todos, r.id, updatedTodo)
                index == FindTodo(r.todos, r.id)
                stored == updateTodoInStorage(localStorage, r.id,
                            CompletedPatch(~r.todos[index].completed))
            IN  /\ todos' = updated
                /\ stats' = calculateStats(updated)
                /\ localStorage' =
                     IF index = 0 THEN localStorage
                     ELSE IF stored.found THEN stored.ls
                     ELSE addTodoToStorage(localStorage, updatedTodo, nops).ls
                /\ UNCHANGED error
                /\ Record(Completed("toggle", TRUE, "ok", r.id, NoPatch,
                                    Solo(r)))
       ELSE /\ error' = ErrToggle
            /\ UNCHANGED <<todos, stats, localStorage>>
            /\ Record(Completed("toggle", TRUE, "failed", r.id, NoPatch,
                                Solo(r)))

\* deleteTodo up to its await (online) or to its end (offline)
DeleteTodo ==
  \E id \in TargetIds, net \in BOOLEAN :
    LET now == nops + 1
    IN  /\ nops > 0
        /\ nops < MaxOps
        /\ nops' = now
        /\ UNCHANGED <<loading, isOnline, offlineAdded, script,
                 handlers, toggled, dev>>
        /\ IF isOnline
           THEN LET response == Call(net, ctlDeleteTodo(db, id), db)
                IN  /\ Cardinality(inflight) < MaxInflight
                    /\ error' = NoError
                    /\ db' = response.db
                    /\ inflight' = inflight \cup
                         { Request(now, "delete", id, NoPatch, response) }
                    /\ UNCHANGED <<todos, stats, localStorage, last>>
           ELSE LET deleted == deleteTodoFromStorage(localStorage, id)
                    updated == RemoveById(todos, id)
                IN  /\ UNCHANGED <<db, inflight>>
                    /\ IF deleted.found
                       THEN /\ error' = NoError
                            /\ localStorage' = deleted.ls
                            /\ todos' = updated
                            /\ stats' = calculateStats(updated)
                            /\ Record(Completed("delete", FALSE, "ok", id,
                                                NoPatch, inflight = {}))
                       ELSE /\ error' = ErrDelete
                            /\ UNCHANGED <<todos, stats, localStorage>>
                            /\ Record(Completed("delete", FALSE, "failed",
                                                id, NoPatch, inflight = {}))

ResolveDelete_fallback ==
  \E r \in inflight :
    /\ r.op = "delete"
    /\ inflight' = inflight \ {r}
    /\ UNCHANGED <<loading, isOnline, db, nops, offlineAdded, script,
                 handlers, toggled, dev>>
    /\ LET updated == RemoveById(todos, r.id)
           deleted == deleteTodoFromStorage(localStorage, r.id)
       IN  /\ todos' = updated
           /\ stats' = calculateStats(updated)
           /\ localStorage' =
                IF deleted.found THEN deleted.ls ELSE localStorage
           /\ error' = IF r.ok THEN error ELSE ErrDelete
           /\ Record(Completed("delete", TRUE,
                               IF r.ok THEN "ok" ELSE "failed", r.id,
                               NoPatch, Solo(r)))

\* deleteTodo after its await
ResolveDelete ==
  \E r \in inflight :
    /\ r.op = "delete"
    /\ inflight' = inflight \ {r}
    /\ UNCHANGED <<loading, isOnline, db, nops, offlineAdded, script,
                 handlers, toggled, dev>>
    /\ IF r.ok
       THEN LET updated == RemoveById(todos, r.id)
                deleted == deleteTodoFromStorage(localStorage, r.id)
            IN  /\ todos' = updated
                /\ stats' = calculateStats(updated)
                /\ localStorage' =
                     IF deleted.found THEN deleted.ls ELSE localStorage
                /\ UNCHANGED error
                /\ Record(Completed("delete", TRUE, "ok", r.id, NoPatch,
                                    Solo(r)))
       ELSE /\ error' = ErrDelete
            /\ UNCHANGED <<todos, stats, localStorage>>
            /\ Record(Completed("delete", TRUE, "failed", r.id, NoPatch,
                                Solo(r)))

\* deleteCompletedTodos up to its await (online) or to its end (offline)
DeleteCompletedTodos ==
  \E net \in BOOLEAN :
    LET now == nops + 1
    IN  /\ nops > 0
        /\ nops < MaxOps
        /\ nops' = now
        /\ error' = NoError
        /\ UNCHANGED <<loading, isOnline, offlineAdded, script,
                 handlers, toggled, dev>>
        /\ IF isOnline
           THEN LET response == Call(net, ctlDeleteCompletedTodos(db), db)
                IN  /\ Cardinality(inflight) < MaxInflight
                    /\ db' = response.db
                    /\ inflight' = inflight \cup
                         { Request(now, "deleteCompleted", NoId, NoPatch,
                                   response) }
                    /\ UNCHANGED <<todos, stats, localStorage, last>>
           ELSE LET remainingTodos == RemainingTodos(todos)
                    newStats == calculateStats(remainingTodos)
                IN  /\ localStorage' =
                         saveStatsToStorage(
                           saveTodosToStorage(localStorage, remainingTodos),
                           newStats)
                    /\ todos' = remainingTodos
                    /\ stats' = newStats
                    /\ Record(Completed("deleteCompleted", FALSE, "ok",
                                        NoId, NoPatch, inflight = {}))
                    /\ UNCHANGED <<db, inflight>>

\* deleteCompletedTodos after its await; r.todos is the list the callback
\* closed over when it was called
ResolveDeleteCompleted ==
  \E r \in inflight :
    /\ r.op = "deleteCompleted"
    /\ inflight' = inflight \ {r}
    /\ UNCHANGED <<loading, isOnline, db, nops, offlineAdded, script,
                 handlers, toggled, dev>>
    /\ IF r.ok
       THEN LET updated == RemainingTodos(todos)
                remainingTodos == RemainingTodos(r.todos)
            IN  /\ todos' = updated
                /\ stats' = calculateStats(updated)
                /\ localStorage' =
                     saveStatsToStorage(
                       saveTodosToStorage(localStorage, remainingTodos),
                       calculateStats(remainingTodos))
                /\ UNCHANGED error
                /\ Record(Completed("deleteCompleted", TRUE, "ok", NoId,
                                    NoPatch, Solo(r)))
       ELSE /\ error' = ErrDeleteCompleted
            /\ UNCHANGED <<todos, stats, localStorage>>
            /\ Record(Completed("deleteCompleted", TRUE, "failed", NoId,
                                NoPatch, Solo(r)))

\* clearError
ClearError ==
  /\ error # NoError
  /\ error' = NoError
  /\ UNCHANGED <<todos, stats, loading, isOnline, localStorage, db, inflight,
                 nops, last, offlineAdded, script,
                 handlers, toggled, dev>>

----------------------------------------------------------------------------
(* The collection at start: none or one document, created at times -1,    *)
(* -2, ...; the newest one is completed.  localStorage persists across     *)
(* browser sessions: at start it holds nothing, or what the loadTodos of   *)
(* an earlier session mirrored from the collection, or that mirror after   *)
(* the user toggled the newest document while offline in that session.     *)

\* start-dev.js when its synchronous part has run: the backend is spawned,
\* the first probe of waitForBackend is sent, no frontend yet
DevStart ==
  [script |-> "running", backend |-> "running", frontend |-> "none",
   wait |-> "probing", elapsed |-> 0, spawns |-> 0]

SeedSizes == {0, 1}

SeedDocs(n) ==
  { Item(ObjectIdAt(0 - k), NoId, Text(0, 5, 0), k = 1, 0 - k) : k \in 1..n }

EmptyStorage ==
  [todoapp_todos |-> <<>>,
   todoapp_stats |-> [total |-> 0, completed |-> 0, pending |-> 0],
   full |-> FALSE]

Mirrored(docs) == syncTodosWithStorage(EmptyStorage, getAllTodos(docs).data)

ToggledOffline(ls) ==
  LET ts == getTodosFromStorage(ls)
  IN  updateTodoInStorage(ls, ResolveId(ts[1]),
                          CompletedPatch(~ts[1].completed)).ls

SeedStorages(docs) ==
  IF docs = {} THEN { EmptyStorage }
  ELSE { EmptyStorage, Mirrored(docs), ToggledOffline(Mirrored(docs)) }

Start(docs, ls, online) ==
  /\ todos = <<>>
  /\ stats = [total |-> 0, completed |-> 0, pending |-> 0]
  /\ loading = FALSE
  /\ error = NoError
  /\ isOnline = online
  /\ localStorage = ls
  /\ db = docs
  /\ inflight = {}
  /\ nops = 0
  /\ last = [op |-> "none", online |-> FALSE, outcome |-> "none", id |-> NoId,
             arg |-> NoPatch, solo |-> FALSE, listed |-> FALSE,
             cached |-> FALSE,
             prev |-> [op |-> "none", online |-> FALSE, outcome |-> "none",
                       solo |-> FALSE],
             seq |-> TRUE]
  /\ offlineAdded = {}
  /\ script = [todoId |-> NoId, text |-> EmptyText, completed |-> FALSE,
               toggles |-> 0, deleted |-> FALSE, late |-> FALSE,
               op |-> "none", valid |-> FALSE, status |-> 0]
  /\ handlers = {}
  /\ toggled = [id \in { d._id : d \in docs } |-> 0]
  /\ dev = DevStart

Init ==
  \E n \in SeedSizes, online \in BOOLEAN :
    \E ls \in SeedStorages(SeedDocs(n)) : Start(SeedDocs(n), ls, online)

Next ==
  \/ Mount
  \/ Load
  \/ GoOnline
  \/ GoOffline
  \/ ResolveLoad
  \/ AddTodo
  \/ ResolveAdd
  \/ UpdateTodo
  \/ ResolveUpdate
  \/ ToggleTodoComplete
  \/ ResolveToggle
  \/ DeleteTodo
  \/ ResolveDelete
  \/ DeleteCompletedTodos
  \/ ResolveDeleteCompleted
  \/ ClearError

Spec == Init /\ [][Next]_vars

(* The one document of the collection is not completed at start.           *)

PendingDocs == { Item(ObjectIdAt(0 - 1), NoId, Text(0, 5, 0), FALSE, 0 - 1) }

InitPending ==
  \E online \in BOOLEAN :
    \E ls \in SeedStorages(PendingDocs) : Start(PendingDocs, ls, online)

SpecPending == InitPending /\ [][Next]_vars

(* The storage takes no more data (its quota is used up, or the browser    *)
(* gives the page none): every setItem throws.                             *)

InitQuota ==
  \E n \in SeedSizes, online \in BOOLEAN :
    \E ls \in SeedStorages(SeedDocs(n)) :
      Start(SeedDocs(n), [ls EXCEPT !.full = TRUE], online)

SpecQuota == InitQuota /\ [][Next]_vars

(* The collection holds a page of documents, or one less, at start: the    *)
(* operations that add to it, remove from it and list it.                  *)

PagedSeedSizes == {DefaultLimit - 1, DefaultLimit}

InitPaged ==
  \E n \in PagedSeedSizes, online \in BOOLEAN :
    Start(SeedDocs(n), EmptyStorage, online)

NextPaged ==
  \/ Mount
  \/ Load
  \/ GoOnline
  \/ GoOffline
  \/ ResolveLoad
  \/ AddTodo
  \/ ResolveAdd
  \/ DeleteTodo
  \/ ResolveDelete

SpecPaged == InitPaged /\ [][NextPaged]_vars

----------------------------------------------------------------------------
(* The API test script (test-api.js) against the controller: it creates a   *)
(* todo, keeps its identifier, and sends get, toggle, update and delete     *)
(* requests for it, each awaited before the next.  Here the requests come   *)
(* in any order and number, with valid and invalid bodies, and are also     *)
(* sent for an identifier no document has.  script.text and                 *)
(* script.completed are what the requests answered with success have        *)
(* written to the created todo, script.toggles the parity of its toggles.   *)

MaxRequests == 5

\* a well-formed identifier that no document has
UnknownId == ObjectIdAt(0)

\* the bodies of the update requests: valid if the controller accepts them
ValidBody(body) ==
  /\ body.hasText \/ body.hasCompleted
  /\ body.hasText => /\ TextLength(trim(body.text)) > 0
                     /\ TextLength(body.text) <= MaxTextLength

ScriptIds == ({script.todoId} \ {NoId}) \cup {UnknownId}

\* what the script notes of a request and its answer
Answered(op, id, valid, response) ==
  [script EXCEPT !.op = op, !.valid = valid, !.status = response.status,
                 !.late = (id = script.todoId /\ script.deleted)]

\* POST /api/todos; the script keeps the identifier of the first todo created
ApiCreate ==
  \E text \in Texts :
    LET now == nops + 1
        response == createTodo(db, text, now)
        noted == Answered("create", NoId, TRUE, response)
    IN  /\ nops < MaxRequests
        /\ nops' = now
        /\ db' = response.db
        /\ script' = IF response.ok /\ script.todoId = NoId
                     THEN [noted EXCEPT !.todoId = ResolveId(response.data[1]),
                                        !.text = trim(text),
                                        !.completed = FALSE,
                                        !.toggles = 0]
                     ELSE noted
        /\ UNCHANGED <<todos, stats, loading, error, isOnline, localStorage,
                       inflight, last, offlineAdded,
                       handlers, toggled, dev>>

\* GET /api/todos/:id
ApiGet ==
  \E id \in ScriptIds :
    LET response == getTodoById(db, id)
    IN  /\ nops < MaxRequests
        /\ nops' = nops + 1
        /\ db' = response.db
        /\ script' = Answered("get", id, TRUE, response)
        /\ UNCHANGED <<todos, stats, loading, error, isOnline, localStorage,
                       inflight, last, offlineAdded,
                       handlers, toggled, dev>>

\* PATCH /api/todos/:id/toggle
ApiToggle ==
  \E id \in ScriptIds :
    LET response == ctlToggleTodoComplete(db, id)
        noted == Answered("toggle", id, TRUE, response)
    IN  /\ nops < MaxRequests
        /\ nops' = nops + 1
        /\ db' = response.db
        /\ script' = IF response.ok /\ id = script.todoId
                     THEN [noted EXCEPT !.completed = ~script.completed,
                                        !.toggles = 1 - script.toggles]
                     ELSE noted
        /\ UNCHANGED <<todos, stats, loading, error, isOnline, localStorage,
                       inflight, last, offlineAdded,
                       handlers, toggled, dev>>

\* PUT /api/todos/:id
ApiUpdate ==
  \E id \in ScriptIds, body \in Patches :
    LET response == ctlUpdateTodo(db, id, body)
        noted == Answered("update", id, ValidBody(body), response)
    IN  /\ nops < MaxRequests
        /\ nops' = nops + 1
        /\ db' = response.db
        /\ script' = IF response.ok /\ id = script.todoId
                     THEN [noted EXCEPT
                             !.text = IF body.hasText THEN trim(body.text)
                                      ELSE script.text,
                             !.completed = IF body.hasCompleted
                                           THEN body.completed
                                           ELSE script.completed]
                     ELSE noted
        /\ UNCHANGED <<todos, stats, loading, error, isOnline, localStorage,
                       inflight, last, offlineAdded,
                       handlers, toggled, dev>>

\* DELETE /api/todos/:id
ApiDelete ==
  \E id \in ScriptIds :
    LET response == ctlDeleteTodo(db, id)
        noted == Answered("delete", id, TRUE, response)
    IN  /\ nops < MaxRequests
        /\ nops' = nops + 1
        /\ db' = response.db
        /\ script' = IF response.ok /\ id = script.todoId
                     THEN [noted EXCEPT !.deleted = TRUE]
                     ELSE noted
        /\ UNCHANGED <<todos, stats, loading, error, isOnline, localStorage,
                       inflight, last, offlineAdded,
                       handlers, toggled, dev>>

InitBackend ==
  \E n \in SeedSizes : Start(SeedDocs(n), EmptyStorage, TRUE)

NextBackend ==
  \/ ApiCreate
  \/ ApiGet
  \/ ApiToggle
  \/ ApiUpdate
  \/ ApiDelete

SpecBackend == InitBackend /\ [][NextBackend]_vars

----------------------------------------------------------------------------
(* The controller under requests of several clients at once: the handler   *)
(* of PATCH /api/todos/:id/toggle awaits Todo.findById, and then            *)
(* todo.toggleComplete(), which negates the completed field of the          *)
(* document it has read and awaits its save.  Other handlers run between    *)
(* the two awaits.                                                          *)

MaxToggles == 4
MaxHandlers == 2

ToggleSeedSizes == {1, 2}

ToggleIds == { d._id : d \in db } \cup { UnknownId }

\* toggleTodoComplete up to the end of `await Todo.findById(id)`: 404 when
\* there is no such document, otherwise the handler holds the document read
ToggleFindById ==
  \E id \in ToggleIds :
    LET now == nops + 1
        found == getTodoById(db, id)
    IN  /\ nops < MaxToggles
        /\ nops' = now
        /\ IF found.ok
           THEN /\ Cardinality(handlers) < MaxHandlers
                /\ handlers' = handlers \cup
                     { [n |-> now, id |-> id, todo |-> found.data[1]] }
                /\ UNCHANGED script
           ELSE /\ script' = Answered("toggle", id, TRUE, found)
                /\ UNCHANGED handlers
        /\ UNCHANGED <<todos, stats, loading, error, isOnline, localStorage,
                       db, inflight, last, offlineAdded, toggled, dev>>

\* todo.toggleComplete(): this.completed = !this.completed; this.save(),
\* which writes the changed field of the handler's own copy; then the 200
ToggleSave ==
  \E h \in handlers :
    LET updatedTodo == [h.todo EXCEPT !.completed = ~h.todo.completed]
        saved == { IF d._id = h.id
                   THEN [d EXCEPT !.completed = updatedTodo.completed]
                   ELSE d : d \in db }
    IN  /\ db' = saved
        /\ handlers' = handlers \ {h}
        /\ toggled' = [toggled EXCEPT ![h.id] = @ + 1]
        /\ script' = Answered("toggle", h.id, TRUE,
                              Response(200, <<updatedTodo>>, saved))
        /\ UNCHANGED <<todos, stats, loading, error, isOnline, localStorage,
                       inflight, nops, last, offlineAdded, dev>>

InitToggle ==
  \E n \in ToggleSeedSizes : Start(SeedDocs(n), EmptyStorage, TRUE)

NextToggle ==
  \/ ToggleFindById
  \/ ToggleSave

SpecToggle == InitToggle /\ [][NextToggle]_vars

----------------------------------------------------------------------------
(* start-dev.js: it spawns the backend, polls GET /health every intervalMs  *)
(* until an answer with a 2xx/3xx status or until timeoutMs have passed,    *)
(* then spawns the frontend.  dev.elapsed is Date.now() - start.            *)

TimeoutMs == 30000
IntervalMs == 500

\* what a probe ends with: 0 for the 'error' event, or the status answered
ProbeStatuses == {0, 200, 302, 404, 503}

\* the time a probe takes
ProbeTimes == {0, IntervalMs}

DevUnchanged ==
  UNCHANGED <<todos, stats, loading, error, isOnline, localStorage, db,
              inflight, nops, last, offlineAdded, script, handlers, toggled>>

\* spawn('npm', ['run', 'dev'], ...) after the await of waitForBackend,
\* in the try block (resolved) or in the catch block (rejected)
SpawnFrontend(d, outcome) ==
  [d EXCEPT !.wait = outcome, !.frontend = "running",
            !.spawns = d.spawns + 1]

ProbeDone_again ==
  \E status \in ProbeStatuses, t \in ProbeTimes :
    LET now == dev.elapsed + t
    IN  /\ dev.script = "running"
        /\ dev.wait = "probing"
        /\ dev' = IF status >= 200 /\ status < 400
                  THEN SpawnFrontend(SpawnFrontend([dev EXCEPT !.elapsed = now],
                                                   "healthy"), "healthy")
                  ELSE IF now > TimeoutMs
                  THEN SpawnFrontend([dev EXCEPT !.elapsed = now], "timedout")
                  ELSE [dev EXCEPT !.elapsed = now, !.wait = "sleeping"]
        /\ DevUnchanged

\* the response callback or the 'error' handler of http.get in attempt,
\* and, when the promise settles, the rest of the async function
ProbeDone ==
  \E status \in ProbeStatuses, t \in ProbeTimes :
    LET now == dev.elapsed + t
    IN  /\ dev.script = "running"
        /\ dev.wait = "probing"
        /\ dev' = IF status >= 200 /\ status < 400
                  THEN SpawnFrontend([dev EXCEPT !.elapsed = now], "healthy")
                  ELSE IF now > TimeoutMs
                  THEN SpawnFrontend([dev EXCEPT !.elapsed = now], "timedout")
                  ELSE [dev EXCEPT !.elapsed = now, !.wait = "sleeping"]
        /\ DevUnchanged

\* setTimeout(attempt, intervalMs) fires: the next probe is sent
Timer ==
  /\ dev.script = "running"
  /\ dev.wait = "sleeping"
  /\ dev' = [dev EXCEPT !.wait = "probing",
                        !.elapsed = dev.elapsed + IntervalMs]
  /\ DevUnchanged

\* the frontend process exits; frontend.on('close') runs backend.kill()
\* when the script is still there
FrontendClose ==
  /\ dev.frontend = "running"
  /\ dev' = [dev EXCEPT !.frontend = "closed",
                        !.backend = IF dev.script = "running"
                                       /\ dev.backend = "running"
                                    THEN "killed" ELSE dev.backend]
  /\ DevUnchanged

\* the backend process exits, by itself or after kill();
\* backend.on('close') runs process.exit(code)
BackendClose ==
  /\ dev.backend \in {"running", "killed"}
  /\ dev' = [dev EXCEPT !.backend = "closed", !.script = "exited"]
  /\ DevUnchanged

\* process.on('SIGINT'): backend.kill(); process.exit(0)
Sigint ==
  /\ dev.script = "running"
  /\ dev' = [dev EXCEPT !.script = "exited",
                        !.backend = IF dev.backend = "running"
                                    THEN "killed" ELSE dev.backend]
  /\ DevUnchanged

InitDev == Start({}, EmptyStorage, TRUE)

NextDev ==
  \/ ProbeDone
  \/ Timer
  \/ FrontendClose
  \/ BackendClose
  \/ Sigint

\* every probe completes or errors, and every timer fires
SpecDev ==
  InitDev /\ [][NextDev]_vars /\ WF_vars(ProbeDone) /\ WF_vars(Timer)

----------------------------------------------------------------------------
(* Properties *)

\* an operation completes in this step: an awaited response is consumed, or
\* an operation runs from its call to its end without awaiting
Completes ==
  \/ inflight' # inflight /\ inflight' \subseteq inflight
  \/ nops' # nops /\ inflight' = inflight

Cache == getTodosFromStorage(localStorage)

\* C1: in every reachable state stats is the counts of the current todos:
\* total is their number, completed the number of completed ones, and
\* total = completed + pending
Thm_C1 ==
  /\ stats.total = Len(todos)
  /\ stats.completed = Cardinality({ i \in DOMAIN todos : todos[i].completed })
  /\ stats.total = stats.completed + stats.pending

\* a failed operation has completed with completed and pending todos in the list
Wit_C1 ==
  /\ last.outcome = "failed"
  /\ stats.completed >= 1
  /\ stats.pending >= 1

\* C2: addTodo with a text that is empty after trimming sets the error to
\* 'Todo text cannot be empty' and changes neither todos, stats, localStorage
\* nor the collection, online and offline
Thm_C2 ==
  [][ (Completes /\ last'.op = "add"
         /\ TextLength(trim(last'.arg.text)) = 0)
      => /\ error' = ErrEmptyText
         /\ last'.outcome = "invalid"
         /\ UNCHANGED <<todos, stats, localStorage, db>> ]_vars

\* addTodo("  ") has been rejected
Wit_C2 ==
  /\ last.op = "add"
  /\ last.arg.text = Text(1, 0, 1)
  /\ last.outcome = "invalid"
  /\ error = ErrEmptyText

\* C3 (as claimed): addTodo with a text longer than 500 characters fails,
\* online and offline, and changes neither todos nor localStorage
CX_C3 ==
  [][ (Completes /\ last'.op = "add"
         /\ TextLength(last'.arg.text) > MaxTextLength)
      => /\ last'.outcome = "failed"
         /\ error' # NoError
         /\ UNCHANGED <<todos, localStorage>> ]_vars

\* C4 (as claimed): updateTodo(id, {text: ""}) on an entry of todos fails,
\* online and offline, and changes neither todos nor localStorage
CX_C4 ==
  [][ (Completes /\ last'.op = "update" /\ last'.arg = TextPatch(EmptyText)
         /\ \E i \in DOMAIN todos : todos[i].id = last'.id)
      => /\ last'.outcome = "failed"
         /\ error' # NoError
         /\ UNCHANGED <<todos, localStorage>> ]_vars

\* C5 (as claimed): offline changes reach the database on their own once the
\* client is online again.  Nothing in the hook runs without a call: once it
\* is online, the loadTodos of the reconnection has fetched the list and no
\* response is awaited, whatever was to be synchronised has been, so the
\* collection then holds every text added offline
CX_C5 ==
  (/\ isOnline
   /\ inflight = {}
   /\ last.op = "load" /\ last.online /\ last.outcome = "ok")
  => \A t \in offlineAdded : \E d \in db : d.text = t

Thm_C7 ==
  [][ (/\ Completes
       /\ last'.op = "load" /\ last'.online /\ last'.outcome = "ok"
       /\ last'.solo
       /\ last.op = "add" /\ last.online /\ last.outcome = "ok" /\ last.solo)
      => \E i \in DOMAIN todos' :
           /\ todos'[i].id = last.id
           /\ todos'[i].text = trim(last.arg.text) ]_vars

\* addTodo then loadTodos, both online and successful, with more documents
\* in the collection than a page holds
Wit_C7 ==
  /\ last.op = "load" /\ last.online /\ last.outcome = "ok" /\ last.solo
  /\ last.prev.op = "add" /\ last.prev.online /\ last.prev.outcome = "ok"
  /\ last.prev.solo
  /\ Cardinality(db) > DefaultLimit

\* C8: the second of two successful deleteCompletedTodos in a row, both
\* online or both offline, changes neither todos, stats nor localStorage, and
\* no completed entry is left in todos
Thm_C8 ==
  [][ (/\ Completes
       /\ last'.op = "deleteCompleted" /\ last'.outcome = "ok" /\ last'.solo
       /\ last.op = "deleteCompleted" /\ last.outcome = "ok" /\ last.solo
       /\ last'.online = last.online)
      => /\ UNCHANGED <<todos, stats, localStorage>>
         /\ \A i \in DOMAIN todos' : ~todos'[i].completed
         /\ stats'.completed = 0 ]_vars

\* deleteCompletedTodos has completed twice in a row
Wit_C8 ==
  /\ last.op = "deleteCompleted" /\ last.outcome = "ok" /\ last.solo
  /\ last.prev.op = "deleteCompleted" /\ last.prev.outcome = "ok"
  /\ last.prev.solo /\ last.prev.online = last.online

\* C9 (as claimed): a successful toggleTodoComplete(id) on an entry of todos
\* that is not completed makes it completed, adds 1 to stats.completed, takes
\* 1 from stats.pending and keeps stats.total, online and offline
CX_C9 ==
  [][ (/\ Completes
       /\ last'.op = "toggle" /\ last'.outcome = "ok" /\ last'.solo
       /\ \E i \in DOMAIN todos : todos[i].id = last'.id /\ ~todos[i].completed)
      => /\ Len(todos') = Len(todos)
         /\ \A i \in DOMAIN todos :
              IF todos[i].id = last'.id THEN todos'[i].completed
              ELSE todos'[i] = todos[i]
         /\ stats'.completed = stats.completed + 1
         /\ stats'.pending = stats.pending - 1
         /\ stats'.total = stats.total ]_vars

\* C10: deleteTodo(id) while offline, for an id that matches no record of
\* localStorage, sets the error and changes neither todos, stats nor
\* localStorage
Thm_C10 ==
  [][ (/\ Completes
       /\ last'.op = "delete" /\ ~last'.online
       /\ ~\E i \in DOMAIN Cache : MatchesId(Cache[i], last'.id))
      => /\ error' = ErrDelete
         /\ last'.outcome = "failed"
         /\ UNCHANGED <<todos, stats, localStorage>> ]_vars

\* an offline deleteTodo of an unknown id has failed
Wit_C10 ==
  /\ last.op = "delete" /\ ~last.online /\ last.outcome = "failed"
  /\ error = ErrDelete
  /\ ~\E i \in DOMAIN Cache : MatchesId(Cache[i], last.id)

CX_C12 ==
  [][ (/\ Completes
       /\ last'.op = "load" /\ last'.online /\ last'.outcome = "ok"
       /\ last'.solo)
      => /\ Len(todos') = Cardinality(db)
         /\ \A d \in db : \E i \in DOMAIN todos' : todos'[i].id = d._id
         /\ stats' = calculateStats(todos') ]_vars

\* C13 (as claimed): after a successful online loadTodos localStorage holds
\* the normalized list that was put in todos, every record with its id field
CX_C13 ==
  (last.op = "load" /\ last.online /\ last.outcome = "ok") => Cache = todos

\* C13 (amended): after a successful online loadTodos localStorage holds the
\* list as the API returned it, not the normalized one: every record has the
\* _id of its document and no id field, normalizing the stored list gives
\* todos, the stored stats are stats, and nothing of the previous content of
\* localStorage is left
Thm_C13 ==
  (last.op = "load" /\ last.online /\ last.outcome = "ok")
  => /\ Len(Cache) = Len(todos)
     /\ NormalizeTodos(Cache) = todos
     /\ \A i \in DOMAIN Cache : Cache[i].id = NoId /\ Cache[i]._id # NoId
     /\ localStorage.todoapp_stats = stats

\* a successful online loadTodos has overwritten a localStorage that held an
\* item added offline
Wit_C13 ==
  /\ last.op = "load" /\ last.online /\ last.outcome = "ok"
  /\ last.prev.op = "add" /\ ~last.prev.online /\ last.prev.outcome = "ok"
  /\ Len(Cache) > 0

\* the list loadTodos makes of the records stored in localStorage: each
\* record with its _id, or else its id, as id
FromStorage ==
  [i \in DOMAIN localStorage.todoapp_todos |->
     [localStorage.todoapp_todos[i] EXCEPT
        !.id = IF localStorage.todoapp_todos[i]._id # NoId
               THEN localStorage.todoapp_todos[i]._id
               ELSE localStorage.todoapp_todos[i].id]]

\* C14 (as claimed): loadTodos called offline, and loadTodos called online
\* whose request fails, both put the list stored in localStorage in todos and
\* both set the error to 'Using offline data. Some features may be limited.'
CX_C14 ==
  [][ (/\ Completes /\ last'.op = "load"
       /\ (~last'.online \/ last'.outcome = "fallback"))
      => /\ todos' = FromStorage
         /\ error' = ErrOffline ]_vars

\* C14 (amended): both put the list stored in localStorage in todos, with
\* stats computed from it, and both end with loading reset; the one whose
\* request failed sets the error to 'Using offline data. Some features may be
\* limited.', the one called offline sets no error: it leaves the error null
Thm_C14 ==
  [][ (/\ Completes /\ last'.op = "load"
       /\ (~last'.online \/ last'.outcome = "fallback"))
      => /\ todos' = FromStorage
         /\ stats' = calculateStats(todos')
         /\ loading' = FALSE
         /\ UNCHANGED <<localStorage, db>>
         /\ error' = IF last'.online THEN ErrOffline ELSE NoError ]_vars

\* loadTodos has completed offline, with the stored records in todos and no
\* error
Wit_C14 ==
  /\ last.op = "load" /\ ~last.online /\ last.outcome = "ok"
  /\ Len(todos) > 0
  /\ error = NoError

CX_C16 ==
  [][ (error # NoError /\ error' = NoError)
      => (nops' = nops /\ inflight' = inflight) ]_vars

\* C16 (amended): the error is taken back to null by clearError and by the
\* start of the next operation, and by nothing else: every operation that
\* awaits the API has reset the error when it starts to wait, and the arrival
\* of a response never takes the error back to null
Thm_C16 ==
  [][ /\ (error # NoError /\ error' = NoError)
         => (nops' = nops + 1 \/ (nops' = nops /\ inflight' = inflight))
      /\ (nops' = nops + 1 /\ inflight' # inflight) => error' = NoError ]_vars

\* an operation called after a failed one is waiting for the API, and the
\* error of the failed one is gone
Wit_C16 ==
  /\ last.outcome = "failed"
  /\ error = NoError
  /\ \E r \in inflight : r.n = nops /\ r.alone

\* the created todo, as GET /api/todos/:id answers now
Created == getTodoById(db, script.todoId)

\* C17 (as claimed): the todo the script created stays retrievable by its
\* identifier, with the text last written and with completed equal to the
\* parity of its toggles, until it is deleted; after its deletion every get,
\* update, toggle and delete request for it is answered 404 and the
\* collection does not hold it
CX_C17 ==
  /\ (script.todoId # NoId /\ ~script.deleted)
     => /\ Created.status = 200
        /\ Created.data[1].text = script.text
        /\ Created.data[1].completed = (script.toggles = 1)
  /\ script.deleted
     => /\ ~\E d \in db : d._id = script.todoId
        /\ script.late => script.status = 404

\* C17 (amended): the todo the script created stays retrievable by its
\* identifier until it is deleted, with the trimmed text last written by
\* create or update and with completed equal to the value last written by an
\* update that carried completed, or false if there was none, flipped once
\* for every toggle since (the parity of the toggles if no update carried
\* completed); after its deletion the collection does not hold it, get,
\* toggle and delete for it are answered 404, and so is update unless its
\* body is invalid, which is answered 400
Thm_C17 ==
  /\ (script.todoId # NoId /\ ~script.deleted)
     => /\ Created.status = 200
        /\ Created.data[1]._id = script.todoId
        /\ Created.data[1].text = script.text
        /\ Created.data[1].completed = script.completed
  /\ script.deleted
     => /\ ~\E d \in db : d._id = script.todoId
        /\ Created.status = 404
        /\ script.late => script.status = (IF script.valid THEN 404 ELSE 400)

\* the script has created a todo, toggled it an odd number of times, deleted
\* it, and its next request for it has been answered 404
Wit_C17 ==
  /\ script.deleted /\ script.late
  /\ script.toggles = 1
  /\ script.status = 404

\* C18: when the API has created the todo of an online addTodo, the todo is
\* appended to todos and stats is computed from the new list whether or not
\* localStorage takes the write; a write that fails undoes nothing and sets
\* no error
Thm_C18 ==
  [][ (\E r \in inflight : /\ inflight' = inflight \ {r}
                           /\ r.op = "add" /\ r.ok)
      => /\ last'.op = "add" /\ last'.outcome = "ok"
         /\ Len(todos') = Len(todos) + 1
         /\ todos'[Len(todos')].id = last'.id
         /\ todos'[Len(todos')].text = trim(last'.arg.text)
         /\ \A i \in DOMAIN todos : todos'[i] = todos[i]
         /\ stats' = calculateStats(todos')
         /\ error' = error ]_vars

\* an online addTodo has succeeded although localStorage refused the write:
\* the new todo is in todos and not in localStorage, and there is no error
Wit_C18 ==
  /\ localStorage.full
  /\ last.op = "add" /\ last.online /\ last.outcome = "ok"
  /\ \E i \in DOMAIN todos : todos[i].id = last.id
  /\ ~\E i \in DOMAIN Cache : MatchesId(Cache[i], last.id)
  /\ error = NoError

\* C19: when the API has deleted the document of an online deleteTodo(id),
\* the entries with that id leave todos and stats is computed from what is
\* left, whether or not localStorage holds a record for id: no error is set,
\* and afterwards localStorage holds no record for id and all its other
\* records
Thm_C19 ==
  [][ (\E r \in inflight : /\ inflight' = inflight \ {r}
                           /\ r.op = "delete" /\ r.ok)
      => /\ last'.op = "delete" /\ last'.outcome = "ok"
         /\ todos' = SelectSeq(todos, LAMBDA t : t.id # last'.id)
         /\ stats' = calculateStats(todos')
         /\ error' = error
         /\ localStorage'.todoapp_todos =
              SelectSeq(Cache, LAMBDA t : ~MatchesId(t, last'.id))
         /\ localStorage'.todoapp_stats =
              IF last'.cached
              THEN calculateStats(localStorage'.todoapp_todos)
              ELSE localStorage.todoapp_stats ]_vars

\* an online deleteTodo has succeeded for a todo that was in todos and of
\* which localStorage held no record
Wit_C19 ==
  /\ last.op = "delete" /\ last.online /\ last.outcome = "ok"
  /\ last.listed /\ ~last.cached
  /\ error = NoError

\* C20: when the API has updated the document of an online updateTodo(id)
\* and localStorage holds no record with that id or _id, the returned record
\* is added to localStorage: afterwards localStorage holds exactly one record
\* for id, the one the API returned, after the records it held, and no error
\* is set
Thm_C20 ==
  [][ \A r \in inflight :
        (/\ inflight' = inflight \ {r}
         /\ r.op = "update" /\ r.ok
         /\ ~\E i \in DOMAIN Cache : MatchesId(Cache[i], r.id))
        => /\ last'.op = "update" /\ last'.outcome = "ok" /\ last'.id = r.id
           /\ Len(localStorage'.todoapp_todos) = Len(Cache) + 1
           /\ \A i \in DOMAIN Cache : localStorage'.todoapp_todos[i] = Cache[i]
           /\ localStorage'.todoapp_todos[Len(Cache) + 1].id = r.id
           /\ localStorage'.todoapp_todos[Len(Cache) + 1].text
                = r.data[1].text
           /\ localStorage'.todoapp_todos[Len(Cache) + 1].completed
                = r.data[1].completed
           /\ localStorage'.todoapp_stats
                = calculateStats(localStorage'.todoapp_todos)
           /\ error' = error ]_vars

\* an online updateTodo has succeeded for an entry of todos of which
\* localStorage held no record, and localStorage now holds one
Wit_C20 ==
  /\ last.op = "update" /\ last.online /\ last.outcome = "ok"
  /\ last.listed /\ ~last.cached
  /\ Cardinality({ i \in DOMAIN Cache : MatchesId(Cache[i], last.id) }) = 1
  /\ error = NoError

\* C21 (as claimed): when the API has deleted the completed documents of an
\* online deleteCompletedTodos, todos keeps exactly its entries that are not
\* completed and localStorage is overwritten with that same list
CX_C21 ==
  [][ \A r \in inflight :
        (/\ inflight' = inflight \ {r}
         /\ r.op = "deleteCompleted" /\ r.ok)
        => /\ todos' = SelectSeq(todos, LAMBDA t : ~t.completed)
           /\ stats' = calculateStats(todos')
           /\ localStorage'.todoapp_todos = todos' ]_vars

\* C22: an operation that starts while isOnline is false sends no request to
\* the API: it awaits nothing and leaves the collection as it is, and it
\* runs to its end in the step of its call
Thm_C22 ==
  [][ (nops' = nops + 1 /\ ~isOnline')
      => /\ inflight' = inflight
         /\ db' = db
         /\ last'.op # "none" /\ ~last'.online ]_vars

\* an offline addTodo has changed todos and localStorage while the
\* collection holds a document and nothing is awaited
Wit_C22 ==
  /\ last.op = "add" /\ ~last.online /\ last.outcome = "ok"
  /\ ~isOnline
  /\ Len(todos) > 0
  /\ db # {}
  /\ inflight = {}

\* C23: two updateTodo calls on one id that overlap are both carried out, and
\* each, when it resolves, puts the record of its own response in the place
\* of the entry with that id, so that after both the entry is the record of
\* the call that resolved last, in whatever order they were called; stats is
\* computed from the new list
Thm_C23 ==
  [][ \A r \in inflight :
        (/\ inflight' = inflight \ {r}
         /\ r.op = "update" /\ r.ok)
        => /\ Len(todos') = Len(todos)
           /\ \A i \in DOMAIN todos :
                todos'[i] = IF todos[i].id = r.id THEN WithId(r.data[1])
                            ELSE todos[i]
           /\ stats' = calculateStats(todos')
           /\ last'.op = "update" /\ last'.outcome = "ok" ]_vars

\* both calls have resolved, the one called first resolved last, and the
\* entry is its record, no longer the document of the collection
Wit_C23 ==
  /\ last.op = "update" /\ last.online /\ last.outcome = "ok" /\ ~last.solo
  /\ last.prev.op = "update" /\ last.prev.online
  /\ last.prev.outcome = "ok" /\ ~last.prev.solo
  /\ last.listed
  /\ inflight = {}
  /\ \E i \in DOMAIN todos, d \in db :
       /\ todos[i].id = last.id /\ d._id = last.id
       /\ todos[i].text # d.text
  /\ stats = calculateStats(todos)

\* the identifiers of the records of the cache
CachedIds ==
  { ResolveId(getTodosFromStorage(localStorage)[i]) :
      i \in DOMAIN getTodosFromStorage(localStorage) }

\* every entry of todos has a record in the cache with its text and its
\* completed flag, and the cache has no other record
Consistent ==
  /\ CachedIds = { todos[i].id : i \in DOMAIN todos }
  /\ \A i \in DOMAIN todos, j \in DOMAIN getTodosFromStorage(localStorage) :
       ResolveId(getTodosFromStorage(localStorage)[j]) = todos[i].id
       => /\ getTodosFromStorage(localStorage)[j].text = todos[i].text
          /\ getTodosFromStorage(localStorage)[j].completed
               = todos[i].completed

\* C24 (as claimed): when every operation was awaited before the next one was
\* called, after each completed operation the cache holds exactly the ids of
\* todos, each with the text and the completed flag of its entry
CX_C24 ==
  (last.op # "none" /\ last.seq /\ inflight = {}) => Consistent

\* the operations that change the collection, and the message each one sets
\* in its catch block
Mutations == {"add", "update", "toggle", "delete", "deleteCompleted"}

CatchMessage(op) ==
  CASE op = "add" -> ErrAdd
    [] op = "update" -> ErrUpdate
    [] op = "toggle" -> ErrToggle
    [] op = "delete" -> ErrDelete
    [] op = "deleteCompleted" -> ErrDeleteCompleted

\* C25: an online add, update, toggle, delete or bulk delete changes neither
\* todos nor stats nor localStorage when it is called, and when its request
\* fails (no answer, or an error status) it sets error to its own message
\* and again changes none of the three
Thm_C25 ==
  [][ /\ (\E r \in inflight' \ inflight : r.op \in Mutations)
         => UNCHANGED <<todos, stats, localStorage>>
      /\ \A r \in inflight :
           (/\ inflight' = inflight \ {r}
            /\ r.op \in Mutations /\ ~r.ok)
           => /\ error' = CatchMessage(r.op)
              /\ UNCHANGED <<todos, stats, localStorage>>
              /\ last'.op = r.op /\ last'.outcome = "failed" ]_vars

\* an online delete of an entry that is listed and cached got no answer:
\* the message is set and the entry and its record are still there
Wit_C25 ==
  /\ last.op = "delete" /\ last.online /\ last.outcome = "failed"
  /\ last.listed /\ last.cached
  /\ error = ErrDelete
  /\ \E i \in DOMAIN todos : todos[i].id = last.id
  /\ last.id \in CachedIds

\* C26 (as claimed): todos never holds two entries with one id
CX_C26 ==
  \A i, j \in DOMAIN todos : todos[i].id = todos[j].id => i = j

\* C27 (as claimed): loading is true exactly while a loadTodos is awaiting
\* its response
CX_C27 ==
  loading <=> \E r \in inflight : r.op = "load"

\* C28 (as claimed): when an online toggle resolves with success, the record
\* of the cache for its id has the completed value of the returned record,
\* the one the entry of todos gets
CX_C28 ==
  [][ \A r \in inflight :
        (/\ inflight' = inflight \ {r}
         /\ r.op = "toggle" /\ r.ok)
        => \A j \in DOMAIN getTodosFromStorage(localStorage') :
             MatchesId(getTodosFromStorage(localStorage')[j], r.id)
             => getTodosFromStorage(localStorage')[j].completed
                  = WithId(r.data[1]).completed ]_vars

\* the completed value of a seed document at start
SeedCompleted(d) == d.createdAt = 0 - 1

\* C29 (as claimed): when no toggle handler is at work, every document has
\* its original completed value if an even number of toggle requests for it
\* were answered 200, and the opposite value if an odd number were; no
\* toggle is lost, whether the handlers ran one after the other or together
CX_C29 ==
  handlers = {}
  => \A d \in db :
       d.completed = (SeedCompleted(d) = (toggled[d._id] % 2 = 0))

\* C30 (as claimed): the frontend is started only once the wait has ended
\* as healthy or timed out, never twice, and it is started; once the
\* frontend has exited the backend is no longer left running
CX_C30 ==
  /\ [](dev.spawns <= 1)
  /\ [](dev.frontend # "none" <=> dev.wait \in {"healthy", "timedout"})
  /\ [](dev.frontend = "closed" => dev.backend # "running")
  /\ <>(dev.wait \in {"healthy", "timedout"} /\ dev.spawns = 1)

\* C30 (amended): the same, except that the wait may also end with the
\* script itself, which exits when the backend process exits or on Ctrl+C;
\* the frontend is then never started
Thm_C30 ==
  /\ [](dev.spawns <= 1)
  /\ [](dev.frontend # "none" <=> dev.wait \in {"healthy", "timedout"})
  /\ [](dev.frontend = "closed" => dev.backend # "running")
  /\ <>(\/ dev.wait \in {"healthy", "timedout"} /\ dev.spawns = 1
        \/ dev.script = "exited")

\* the wait timed out, the frontend was started once, it has exited and
\* the backend was killed
Wit_C30 ==
  /\ dev.wait = "timedout"
  /\ dev.elapsed > TimeoutMs
  /\ dev.spawns = 1
  /\ dev.frontend = "closed"
  /\ dev.backend = "killed"
  /\ dev.script = "running"

====
